---- MODULE Spec2Model ----
(***************************************************************************)
(* E-mail validator: the per-address verification pipeline (checkEmail),   *)
(* its collaborators (checkMX, isSMTP, hasSPF, hasDMARC, getDomainAge),    *)
(* the trust score (calculateScore) and the /check and /check-bulk         *)
(* handlers that run the pipeline.                                         *)
(*                                                                         *)
(* Strings are sequences of one-character strings, so that the regular     *)
(* expression, split("@") and toLowerCase() are computed character by      *)
(* character.  An optional field of EmailCheckResult that was never        *)
(* assigned is a field that is not in the DOMAIN of the record.            *)
(***************************************************************************)
EXTENDS Integers, Sequences, FiniteSets, TLC

(***************************************************************************)
(* Characters and strings                                                  *)
(***************************************************************************)
LowerSeq ==
  << "a","b","c","d","e","f","g","h","i","j","k","l","m",
     "n","o","p","q","r","s","t","u","v","w","x","y","z" >>

UpperSeq ==
  << "A","B","C","D","E","F","G","H","I","J","K","L","M",
     "N","O","P","Q","R","S","T","U","V","W","X","Y","Z" >>

Range(s) == { s[k] : k \in DOMAIN s }

Lower == Range(LowerSeq)

Upper == Range(UpperSeq)

Digit == { "0","1","2","3","4","5","6","7","8","9" }

\* String.prototype.toLowerCase, one character
ToLowerChar(c) ==
  IF c \in Upper
    THEN LowerSeq[CHOOSE k \in DOMAIN UpperSeq : UpperSeq[k] = c]
    ELSE c

\* String.prototype.toLowerCase
toLowerCase(s) == [ k \in DOMAIN s |-> ToLowerChar(s[k]) ]

\* String.prototype.split("@"): the pieces between the separators
RECURSIVE split(_)
split(s) ==
  IF \E k \in DOMAIN s : s[k] = "@"
    THEN LET at == CHOOSE k \in DOMAIN s :
                     /\ s[k] = "@"
                     /\ \A j \in 1..(k - 1) : s[j] # "@"
         IN  << SubSeq(s, 1, at - 1) >> \o split(SubSeq(s, at + 1, Len(s)))
    ELSE << s >>

(***************************************************************************)
(* syntaxCheck: /^[a-zA-Z0-9._%+-]+@[a-zA-Z0-9.-]+\.[a-zA-Z]{2,}$/          *)
(***************************************************************************)
LocalChars == Lower \cup Upper \cup Digit \cup { ".", "_", "%", "+", "-" }

DomainChars == Lower \cup Upper \cup Digit \cup { ".", "-" }

TldChars == Lower \cup Upper

\* {2,} of the last group of the regular expression
MinTldLen == 2

AllIn(s, from, to, chars) == \A k \in from..to : s[k] \in chars

syntaxCheck(email) ==
  \E at \in DOMAIN email : \E dot \in DOMAIN email :
    /\ at >= 2
    /\ AllIn(email, 1, at - 1, LocalChars)
    /\ email[at] = "@"
    /\ dot >= at + 2
    /\ AllIn(email, at + 1, dot - 1, DomainChars)
    /\ email[dot] = "."
    /\ Len(email) - dot >= MinTldLen
    /\ AllIn(email, dot + 1, Len(email), TldChars)

(***************************************************************************)
(* Domain lists and the role names                                         *)
(***************************************************************************)
NO_PROBE_PROVIDERS ==
  {
    <<"g","m","a","i","l",".","c","o","m">>,
    <<"g","o","o","g","l","e","m","a","i","l",".","c","o","m">>,
    <<"g","o","o","g","l","e",".","c","o","m">>,
    <<"o","u","t","l","o","o","k",".","c","o","m">>,
    <<"h","o","t","m","a","i","l",".","c","o","m">>,
    <<"l","i","v","e",".","c","o","m">>,
    <<"o","f","f","i","c","e","3","6","5",".","c","o","m">>,
    <<"m","i","c","r","o","s","o","f","t",".","c","o","m">>,
    <<"y","a","h","o","o",".","c","o","m">>,
    <<"y","m","a","i","l",".","c","o","m">>,
    <<"r","o","c","k","e","t","m","a","i","l",".","c","o","m">>,
    <<"i","c","l","o","u","d",".","c","o","m">>,
    <<"m","e",".","c","o","m">>,
    <<"m","a","c",".","c","o","m">>,
    <<"p","r","o","t","o","n","m","a","i","l",".","c","o","m">>,
    <<"p","m",".","m","e">>,
    <<"z","o","h","o",".","c","o","m">>,
    <<"z","o","h","o",".","e","u">>,
    <<"g","m","x",".","c","o","m">>,
    <<"g","m","x",".","n","e","t">>,
    <<"m","a","i","l",".","c","o","m">>,
    <<"a","o","l",".","c","o","m">>,
    <<"h","e","y",".","c","o","m">>,
    <<"f","a","s","t","m","a","i","l",".","c","o","m">>
  }

\* roles of isRoleEmail
roles ==
  { <<"a","d","m","i","n">>,
    <<"i","n","f","o">>,
    <<"s","u","p","p","o","r","t">>,
    <<"p","o","s","t","m","a","s","t","e","r">>,
    <<"n","o","r","e","p","l","y">> }

\* email.split("@")[0].toLocaleString(), looked up in roles (no case folding)
isRoleEmail(email) == split(email)[1] \in roles

\* isDomainInList with the branches of its conditional swapped
isDomainInListSwapped(domain, list) == IF domain # << >> THEN FALSE ELSE domain \in list

\* domain ? list.has(domain) : false   (the empty string is falsy)
isDomainInList(domain, list) == IF domain # << >> THEN domain \in list ELSE FALSE

\* email.split("@")[1] is undefined when the address has no "@"
HasDomainPart(email) == Len(split(email)) >= 2

\* email.split("@")[1].toLowerCase()
DomainOf(email) == toLowerCase(split(email)[2])


(***************************************************************************)
(* JavaScript values                                                       *)
(***************************************************************************)
\* a number that is an integer, and NaN
Num(n) == [ nan |-> FALSE, n |-> n ]

NaN == [ nan |-> TRUE ]

\* obj.f is undefined when f was never assigned
Has(obj, f) == f \in DOMAIN obj

\* obj.f = v
Put(obj, f, v) == [ g \in DOMAIN obj \cup {f} |-> IF g = f THEN v ELSE obj[g] ]

\* Error(message) as a returned value, and a plain returned value
\* what a call of checkMX or isSMTP ends with: a returned value, a returned
\* Error(message), or an exception (a rejected promise)
Val(v) == [ tag |-> "value", value |-> v ]

Err(message) == [ tag |-> "error", message |-> message ]

Throw(message) == [ tag |-> "throw", message |-> message ]

(***************************************************************************)
(* Answers of the network collaborators                                    *)
(*   dns.resolveMx : rejected with a message, or an array of               *)
(*                   {exchange, priority}                                  *)
(*   dns.resolveTxt: rejected, or an array of records; a record is kept as *)
(*                   what txt.join("").toLowerCase() starts with           *)
(*   whois         : rejected, or an object, or an array of objects, whose *)
(*                   creationDate may be missing, empty, unparseable or a  *)
(*                   date                                                  *)
(***************************************************************************)
Rejected(message) == [ ok |-> FALSE, message |-> message ]

Resolved(value) == [ ok |-> TRUE, value |-> value ]

(***************************************************************************)
(* checkMX                                                                 *)
(***************************************************************************)
\* checkMX without the test of mxRecords.length
checkMXIgnoringEmpty(answer) ==
  IF answer.ok
    THEN Val(TRUE)
    ELSE Err("DNS lookup failed: " \o answer.message)

\* checkMX without its try/catch
checkMXUncaught(answer) ==
  IF answer.ok
    THEN IF Len(answer.value) = 0
           THEN Err("No MX records found")
           ELSE Val(TRUE)
    ELSE Throw(answer.message)

checkMX(answer) ==
  IF answer.ok
    THEN IF Len(answer.value) = 0
           THEN Err("No MX records found")
           ELSE Val(TRUE)
    ELSE Err("DNS lookup failed: " \o answer.message)

(***************************************************************************)
(* isSMTP, up to the choice of the host                                    *)
(***************************************************************************)
\* Array.prototype.sort((a, b) => a.priority - b.priority): a stable sort
RECURSIVE InsertByPriority(_, _)
InsertByPriority(sorted, rec) ==
  IF sorted = << >>
    THEN << rec >>
    ELSE IF Head(sorted).priority <= rec.priority
           THEN << Head(sorted) >> \o InsertByPriority(Tail(sorted), rec)
           ELSE << rec >> \o sorted

RECURSIVE SortByPriority(_)
SortByPriority(records) ==
  IF records = << >>
    THEN << >>
    ELSE InsertByPriority(SortByPriority(SubSeq(records, 1, Len(records) - 1)),
                          records[Len(records)])

\* the host of the first record returned, without the sort
mxHostUnsorted(records) == records[1].exchange

\* mxRecords.sort(...)[0].exchange
mxHost(records) == SortByPriority(records)[1].exchange

\* isSMTP before the connection: the Error it returns, or the host it picks
\* (the message of the second Error ends with the domain, left out here)
isSMTPResolve(answer) ==
  IF ~answer.ok
    THEN Err("DNS lookup failed: " \o answer.message)
    ELSE IF Len(answer.value) = 0
           THEN Err("No MX records found for")
           ELSE Val(mxHost(answer.value))

(***************************************************************************)
(* hasSPF, hasDMARC                                                        *)
(***************************************************************************)
hasSPF(answer) ==
  IF answer.ok
    THEN \E k \in DOMAIN answer.value : answer.value[k] = "v=spf1"
    ELSE FALSE

hasDMARC(answer) ==
  IF answer.ok
    THEN \E k \in DOMAIN answer.value : answer.value[k] = "v=dmarc1"
    ELSE FALSE

(***************************************************************************)
(* getDomainAge                                                            *)
(* Times are counted in half years: 1000 * 60 * 60 * 24 * 365 ms is 2.     *)
(***************************************************************************)
YearLength == 2

\* a creationDate that is present and not the empty string
Truthy(el) == Has(el, "creationDate") /\ el.creationDate.kind # "empty"

\* new Date(creationDate).getTime()
getTime(creationDate) ==
  IF creationDate.kind = "date" THEN Num(creationDate.t) ELSE NaN

\* Math.floor(x / d) for d > 0
Floor(x, d) == IF x >= 0 THEN x \div d ELSE -(((-x) + d - 1) \div d)

\* info.find(el => el.creationDate)?.creationDate, or info.creationDate
CreationDateOf(info) ==
  IF info.isArray
    THEN IF \E k \in DOMAIN info.els : Truthy(info.els[k])
           THEN << info.els[CHOOSE k \in DOMAIN info.els :
                              /\ Truthy(info.els[k])
                              /\ \A j \in 1..(k - 1) : ~Truthy(info.els[j])].creationDate >>
           ELSE << >>
    ELSE IF Truthy(info.obj) THEN << info.obj.creationDate >> ELSE << >>

getDomainAge(answer, now) ==
  IF ~answer.ok
    THEN Num(0)
    ELSE LET found == CreationDateOf(answer.value)
         IN  IF found = << >>
               THEN Num(0)
               ELSE LET created == getTime(found[1])
                    IN  IF created.nan
                          THEN NaN
                          ELSE Num(Floor(now - created.n, YearLength))

(***************************************************************************)
(* calculateScore                                                          *)
(***************************************************************************)
\* result.f for an optional boolean f: undefined is falsy
Flag(result, f) == Has(result, f) /\ result[f]

\* result.mx?.ok, result.smtp?.ok
OkOf(result, f) == Has(result, f) /\ result[f].ok

\* result.domainAgeYears && result.domainAgeYears >= 1
AgeCounts(result) ==
  /\ Has(result, "domainAgeYears")
  /\ ~result.domainAgeYears.nan
  /\ result.domainAgeYears.n # 0
  /\ result.domainAgeYears.n >= 1

Min(a, b) == IF a <= b THEN a ELSE b

\* the normalisation without its lower clamp
NormalizeNoFloor(score) == IF score > 100 THEN 100 ELSE score

\* if (score < 0) score = 0; if (score > 100) score = 100;
Normalize(score) == IF score < 0 THEN 0 ELSE IF score > 100 THEN 100 ELSE score

\* the MX term with its condition inverted
MxTermInverted(result) == IF OkOf(result, "mx") THEN 0 ELSE 15

\* if (result.mx?.ok) score += 15
MxTerm(result) == IF OkOf(result, "mx") THEN 15 ELSE 0

\* the SMTP term with a penalty for every smtp that carries an error text
SmtpTermErrorPenalty(result) ==
  IF OkOf(result, "smtp")
    THEN 30
    ELSE IF Has(result, "smtp") /\ Has(result.smtp, "error") THEN -10 ELSE 0

\* if (result.smtp?.ok) score += 20
SmtpTerm(result) == IF OkOf(result, "smtp") THEN 20 ELSE 0

\* if (result.domainAgeYears && result.domainAgeYears >= 1) score += Math.min(.., 10)
AgeTerm(result) ==
  IF AgeCounts(result) THEN Min(result.domainAgeYears.n, 10) ELSE 0

calculateScore(result) ==
  IF ~result.syntaxValid
    THEN 0
    ELSE LET s1 == 20
             s2 == s1 + MxTerm(result)
             s3 == s2 + SmtpTerm(result)
             s4 == IF Flag(result, "inBlocklist") THEN s3 - 20 ELSE s3
             s5 == IF Flag(result, "inTrustedDomains") \/ Flag(result, "noProbeList")
                     THEN s4 + 10 ELSE s4
             s6 == IF Flag(result, "isDisposable") THEN s5 - 25 ELSE s5
             s7 == IF Flag(result, "isRole") THEN s6 - 5 ELSE s6
             s8 == IF Flag(result, "hasSPF") THEN s7 + 10 ELSE s7
             s9 == IF Flag(result, "hasDMARC") THEN s8 + 10 ELSE s8
             s10 == s9 + AgeTerm(result)
         IN  Normalize(s10)

(***************************************************************************)
(* The server: its lists, a request, and the pipelines it runs             *)
(***************************************************************************)
VARIABLES
  kind,       \* "check" (GET /check), "bulk" (POST /check-bulk), "none"
  emails,     \* the addresses of the request, in input order
  skipSMTP,   \* the request's skipSMTP
  net,        \* net[i]: what the collaborators answer to pipeline i
  clock,      \* new Date() of getDomainAge
  pc,         \* pc[i]: where checkEmail(emails[i]) is suspended
  result,     \* result[i]: the EmailCheckResult of pipeline i
  calls,      \* calls[i]: how often pipeline i called each check
  probe,      \* probe[i]: the SMTPConnection of pipeline i
  completed,  \* the pipelines that returned, in completion order
  response,   \* the reply of the handler
  scoreArg,   \* calculateScore alone: its argument
  scoreOut,   \* calculateScore alone: what it returned
  ageArg,     \* getDomainAge alone: the whois answer and the clock
  ageOut      \* getDomainAge alone: what it returned

vars ==
  << kind, emails, skipSMTP, net, clock, pc, result, calls, probe,
     completed, response, scoreArg, scoreOut, ageArg, ageOut >>

pipelineVars ==
  << kind, emails, skipSMTP, net, clock, pc, result, calls, probe,
     completed, response >>

scoreVars == << scoreArg, scoreOut >>

ageVars == << ageArg, ageOut >>

\* let remaining: number | null = 0, passed as remaining ?? 0
remaining == 0

\* disposable_email_blocklist.conf and trusted_domains.conf as loaded
blocklist == { <<"d",".","c","o">> }

trustedDomains == { <<"t",".","c","o">> }

\* the largest emails array of a /check-bulk request
MaxBatch == 2

Pipelines == 1..Len(emails)

NoCalls == [ checkMX |-> 0, isSMTP |-> 0, hasSPF |-> 0, hasDMARC |-> 0, getDomainAge |-> 0 ]

Count(c, f) == [ c EXCEPT ![f] = @ + 1 ]

NoProbe == [ open |-> FALSE ]

Returned(p) == p \in { "done", "thrown" }

(***************************************************************************)
(* checkEmail                                                              *)
(***************************************************************************)
\* checkEmail without its early return
NeverReturnsEarly(r) == FALSE

\* if (!result.syntaxValid) return result;
ReturnsEarly(r) == ~r.syntaxValid

\* const result = {email, syntaxValid: syntaxCheck(email), requestsLeft}
NewResult(email, requestsLeft) ==
  [ email |-> email, syntaxValid |-> syntaxCheck(email), requestsLeft |-> requestsLeft ]

\* the role and list fields without isDisposable
WithListsNoDisposable(r, email, blist, alist) ==
  LET domain == DomainOf(email)
      r1 == Put(r, "isRole", isRoleEmail(email))
      r2 == Put(r1, "inBlocklist", isDomainInList(domain, blist))
  IN  Put(r2, "inTrustedDomains", isDomainInList(domain, alist))

\* isRole, inBlocklist, inTrustedDomains, isDisposable
WithLists(r, email, blist, alist) ==
  LET domain == DomainOf(email)
      r1 == Put(r, "isRole", isRoleEmail(email))
      r2 == Put(r1, "inBlocklist", isDomainInList(domain, blist))
      r3 == Put(r2, "inTrustedDomains", isDomainInList(domain, alist))
  IN  Put(r3, "isDisposable", r3.inBlocklist)

\* checkEmail assigning the role and list fields before its early return
StartPipelineListsFirst(email, blist, alist, requestsLeft) ==
  LET r == NewResult(email, requestsLeft)
  IN  IF ~HasDomainPart(email)
        THEN [ pc |-> "thrown", result |-> r, calls |-> NoCalls ]
        ELSE IF ReturnsEarly(r)
               THEN [ pc |-> "done",
                      result |-> WithLists(r, email, blist, alist),
                      calls |-> NoCalls ]
               ELSE [ pc |-> "mx",
                      result |-> WithLists(r, email, blist, alist),
                      calls |-> Count(NoCalls, "checkMX") ]

\* checkEmail from its call to its first await (or its return)
StartPipeline(email, blist, alist, requestsLeft) ==
  LET r == NewResult(email, requestsLeft)
  IN  IF ReturnsEarly(r)
        THEN [ pc |-> "done", result |-> r, calls |-> NoCalls ]
        ELSE IF ~HasDomainPart(email)
               THEN [ pc |-> "thrown", result |-> r, calls |-> NoCalls ]
               ELSE [ pc |-> "mx",
                      result |-> WithLists(r, email, blist, alist),
                      calls |-> Count(NoCalls, "checkMX") ]

\* the probe's condition without the no-probe list
ShouldProbeDespiteNoProbe(skip, mxOk, noProbe) == ~skip /\ mxOk

\* if (!skipSMTP && result.mx.ok && !noProbe)
ShouldProbe(skip, mxOk, noProbe) == ~skip /\ mxOk /\ ~noProbe

\* the else-if chain with its two branches swapped
SkippedSmtpNoProbeFirst(r, skip, noProbe) ==
  IF noProbe
    THEN Put(r, "smtp", [ ok |-> FALSE, error |-> "Provider blocks SMTP probes" ])
    ELSE IF skip
           THEN Put(r, "smtp", [ ok |-> FALSE, error |-> "SMTP check skipped by request" ])
           ELSE r

\* the else-if chain after the probe's condition
SkippedSmtp(r, skip, noProbe) ==
  IF skip
    THEN Put(r, "smtp", [ ok |-> FALSE, error |-> "SMTP check skipped by request" ])
    ELSE IF noProbe
           THEN Put(r, "smtp", [ ok |-> FALSE, error |-> "Provider blocks SMTP probes" ])
           ELSE r

\* result.smtp with { ok: true } in place of { ok: smtp }
SmtpFieldAlwaysOk(smtp) ==
  IF smtp.tag = "error"
    THEN [ ok |-> FALSE, error |-> smtp.message ]
    ELSE [ ok |-> TRUE ]

\* result.smtp = smtp instanceof Error ? { ok: false, error: smtp.message } : { ok: smtp }
SmtpField(smtp) ==
  IF smtp.tag = "error"
    THEN [ ok |-> FALSE, error |-> smtp.message ]
    ELSE [ ok |-> smtp.value ]

\* a pipeline returns: its promise is fulfilled (or rejected)
Complete(i) == completed' = Append(completed, i)

\* await checkMX(domain) returns; mx, noProbeList; then the probe or its skip
MXReturn(i) ==
  /\ pc[i] = "mx"
  /\ LET mx == checkMX(net[i].mx)
         domain == DomainOf(emails[i])
         noProbe == domain \in NO_PROBE_PROVIDERS
         r1 == Put(result[i], "mx", [ ok |-> mx.tag # "error" ])
         r2 == Put(r1, "noProbeList", noProbe)
     IN  IF mx.tag = "throw"
           THEN /\ pc' = [ pc EXCEPT ![i] = "thrown" ]
                /\ Complete(i)
                /\ UNCHANGED << result, calls >>
           ELSE IF ShouldProbe(skipSMTP, r2.mx.ok, noProbe)
                  THEN /\ pc' = [ pc EXCEPT ![i] = "smtpResolve" ]
                       /\ result' = [ result EXCEPT ![i] = r2 ]
                       /\ calls' = [ calls EXCEPT ![i] = Count(@, "isSMTP") ]
                       /\ UNCHANGED completed
                  ELSE /\ pc' = [ pc EXCEPT ![i] = "spf" ]
                       /\ result' = [ result EXCEPT ![i] = SkippedSmtp(r2, skipSMTP, noProbe) ]
                       /\ calls' = [ calls EXCEPT ![i] = Count(@, "hasSPF") ]
                       /\ UNCHANGED completed
  /\ UNCHANGED << kind, emails, skipSMTP, net, clock, probe, response, scoreVars, ageVars >>

\* isSMTP: dns.resolveMx returns; an Error ends the probe, else the connection opens
SmtpResolved(i) ==
  /\ pc[i] = "smtpResolve"
  /\ LET smtp == isSMTPResolve(net[i].mx2)
     IN  IF smtp.tag = "error"
           THEN /\ pc' = [ pc EXCEPT ![i] = "spf" ]
                /\ result' = [ result EXCEPT ![i] = Put(@, "smtp", SmtpField(smtp)) ]
                /\ calls' = [ calls EXCEPT ![i] = Count(@, "hasSPF") ]
                /\ UNCHANGED probe
           ELSE /\ pc' = [ pc EXCEPT ![i] = "smtpConnect" ]
                /\ probe' = [ probe EXCEPT ![i] =
                     [ open |-> TRUE, host |-> smtp.value, connected |-> FALSE,
                       errored |-> FALSE, quit |-> FALSE, resolved |-> << >>,
                       logged |-> << >> ] ]
                /\ UNCHANGED << result, calls >>
  /\ UNCHANGED << kind, emails, skipSMTP, net, clock, completed, response, scoreVars, ageVars >>


\* a promise that every call of resolve settles again
SettleAgain(resolved, v) == << v >>

\* resolve(v) of the promise of isSMTP: only the first call settles it
Settle(resolved, v) == IF resolved = << >> THEN << v >> ELSE resolved

\* checkEmail resumes after await isSMTP(domain), if it is still waiting
AfterProbe(i, resolved) ==
  IF pc[i] = "smtpConnect"
    THEN /\ pc' = [ pc EXCEPT ![i] = "spf" ]
         /\ result' = [ result EXCEPT ![i] = Put(@, "smtp", SmtpField(Val(resolved[1]))) ]
         /\ calls' = [ calls EXCEPT ![i] = Count(@, "hasSPF") ]
    ELSE UNCHANGED << pc, result, calls >>

\* connection.connect(() => { connection.quit(); resolve(true); })
SmtpConnect(i) ==
  /\ probe[i].open
  /\ ~probe[i].connected
  /\ LET resolved == Settle(probe[i].resolved, TRUE)
     IN  /\ probe' = [ probe EXCEPT ![i] =
               [ @ EXCEPT !.connected = TRUE, !.quit = TRUE, !.resolved = resolved ] ]
         /\ AfterProbe(i, resolved)
  /\ UNCHANGED << kind, emails, skipSMTP, net, clock, completed, response, scoreVars, ageVars >>

\* err.message of the "error" event: refused, reset, or one of the timeouts
SmtpErrors == { "ECONNREFUSED", "ETIMEDOUT" }

\* connection.on("error", (err) => { console.error(...); resolve(false); })
SmtpError(i) ==
  /\ probe[i].open
  /\ ~probe[i].errored
  /\ \E message \in SmtpErrors :
       LET resolved == Settle(probe[i].resolved, FALSE)
       IN  /\ probe' = [ probe EXCEPT ![i] =
                 [ @ EXCEPT !.errored = TRUE, !.resolved = resolved,
                            !.logged = Append(@, message) ] ]
           /\ AfterProbe(i, resolved)
  /\ UNCHANGED << kind, emails, skipSMTP, net, clock, completed, response, scoreVars, ageVars >>

\* await hasSPF(domain) returns
SPFReturn(i) ==
  /\ pc[i] = "spf"
  /\ pc' = [ pc EXCEPT ![i] = "dmarc" ]
  /\ result' = [ result EXCEPT ![i] = Put(@, "hasSPF", hasSPF(net[i].spf)) ]
  /\ calls' = [ calls EXCEPT ![i] = Count(@, "hasDMARC") ]
  /\ UNCHANGED << kind, emails, skipSMTP, net, clock, probe, completed, response,
                  scoreVars, ageVars >>

\* await hasDMARC(domain) returns
DMARCReturn(i) ==
  /\ pc[i] = "dmarc"
  /\ pc' = [ pc EXCEPT ![i] = "whois" ]
  /\ result' = [ result EXCEPT ![i] = Put(@, "hasDMARC", hasDMARC(net[i].dmarc)) ]
  /\ calls' = [ calls EXCEPT ![i] = Count(@, "getDomainAge") ]
  /\ UNCHANGED << kind, emails, skipSMTP, net, clock, probe, completed, response,
                  scoreVars, ageVars >>

\* await getDomainAge(domain) returns; requestsLeft; return result
WhoisReturn(i) ==
  /\ pc[i] = "whois"
  /\ pc' = [ pc EXCEPT ![i] = "done" ]
  /\ result' = [ result EXCEPT ![i] =
       Put(Put(@, "domainAgeYears", getDomainAge(net[i].whois, clock)),
           "requestsLeft", remaining) ]
  /\ Complete(i)
  /\ UNCHANGED << kind, emails, skipSMTP, net, clock, calls, probe, response,
                  scoreVars, ageVars >>

(***************************************************************************)
(* The handlers                                                            *)
(***************************************************************************)
\* reply.code(code).send({ code, message, body })
success(body, message) ==
  [ sent |-> TRUE, status |-> 200, code |-> 200, message |-> message, body |-> body ]

\* reply.code(statusCode).send({ code, message, body: null }), statusCode = 400
failure(message, code) ==
  [ sent |-> TRUE, status |-> 400, code |-> code, message |-> message ]

\* every checkEmail call of the handler, up to its first await
StartAll ==
  LET started == [ i \in Pipelines |->
                     StartPipeline(emails[i], blocklist, trustedDomains, remaining) ]
      Early(i) == Returned(started[i].pc)
  IN  /\ pc' = [ i \in Pipelines |-> started[i].pc ]
      /\ result' = [ i \in Pipelines |-> started[i].result ]
      /\ calls' = [ i \in Pipelines |-> started[i].calls ]
      /\ completed' = SelectSeq([ i \in Pipelines |-> i ], Early)

\* GET /check, up to await checkEmail(...)
CheckRequest ==
  /\ kind = "check"
  /\ ~response.sent
  /\ pc[1] = "idle"
  /\ IF emails[1] = << >>
       THEN /\ response' = failure("Missing email parameter", 400)
            /\ UNCHANGED << pc, result, calls, completed >>
       ELSE /\ StartAll
            /\ UNCHANGED response
  /\ UNCHANGED << kind, emails, skipSMTP, net, clock, probe, scoreVars, ageVars >>

\* GET /check, after await checkEmail(...)
CheckReply ==
  /\ kind = "check"
  /\ ~response.sent
  /\ Returned(pc[1])
  /\ response' =
       IF pc[1] = "thrown"
         THEN failure("Internal error", 500)
         ELSE IF ~result[1].syntaxValid
                THEN failure("Invalid email syntax", 422)
                ELSE IF ~OkOf(result[1], "mx")
                       THEN failure("No MX records found", 422)
                       ELSE success([ email |-> emails[1],
                                      percentage |-> calculateScore(result[1]),
                                      info |-> result[1] ], "success")
  /\ UNCHANGED << kind, emails, skipSMTP, net, clock, pc, result, calls, probe,
                  completed, scoreVars, ageVars >>

\* POST /check-bulk, up to await Promise.all(data.emails.map(...))
BulkRequest ==
  /\ kind = "bulk"
  /\ ~response.sent
  /\ \A i \in Pipelines : pc[i] = "idle"
  /\ IF Len(emails) = 0
       THEN /\ response' = failure("Missing emails array", 400)
            /\ UNCHANGED << pc, result, calls, completed >>
       ELSE /\ StartAll
            /\ UNCHANGED response
  /\ UNCHANGED << kind, emails, skipSMTP, net, clock, probe, scoreVars, ageVars >>

\* the values in the order in which the promises were fulfilled
PromiseAllByCompletion(values, order) == [ k \in DOMAIN values |-> values[order[k]] ]

\* Promise.all: the values of the promises, in the order of the promises
PromiseAll(values, order) == [ k \in DOMAIN values |-> values[k] ]

\* the entry of the bulk reply with the score computed for every result
BulkEntryAlwaysScored(r) ==
  [ percentage |-> calculateScore(r),
    info |-> IF ~r.syntaxValid
               THEN [ text |-> "Invalid syntax" ]
               ELSE IF ~OkOf(r, "mx")
                      THEN [ text |-> "No MX records" ]
                      ELSE [ result |-> r ] ]

\* results.map(result => ({ percentage, info }))
BulkEntry(r) ==
  [ percentage |-> IF r.syntaxValid /\ OkOf(r, "mx") THEN calculateScore(r) ELSE 0,
    info |-> IF ~r.syntaxValid
               THEN [ text |-> "Invalid syntax" ]
               ELSE IF ~OkOf(r, "mx")
                      THEN [ text |-> "No MX records" ]
                      ELSE [ result |-> r ] ]

\* POST /check-bulk, after await Promise.all(...)
BulkReply ==
  /\ kind = "bulk"
  /\ ~response.sent
  /\ Len(emails) > 0
  /\ \A i \in Pipelines : Returned(pc[i])
  /\ response' =
       IF \E i \in Pipelines : pc[i] = "thrown"
         THEN failure("Internal error", 500)
         ELSE LET results == PromiseAll(result, completed)
              IN  success([ k \in DOMAIN results |-> BulkEntry(results[k]) ],
                          "Bulk email check completed")
  /\ UNCHANGED << kind, emails, skipSMTP, net, clock, pc, result, calls, probe,
                  completed, scoreVars, ageVars >>

(***************************************************************************)
(* Requests and the answers of the network                                 *)
(***************************************************************************)
\* "no"
NotAnEmail == <<"n","o">>

\* "a@b.c"
ShortTld == <<"a","@","b",".","c">>

\* "a@b@x.io"
TwoAts == <<"a","@","b","@","x",".","i","o">>

\* "a@x.io"
Plain == <<"a","@","x",".","i","o">>

\* "info@x.io"
RoleAddress == <<"i","n","f","o","@","x",".","i","o">>

\* "Info@x.io"
UpperRole == <<"I","n","f","o","@","x",".","i","o">>

\* "a@pm.me"
NoProbeAddress == <<"a","@","p","m",".","m","e">>

\* "a@PM.ME"
UpperNoProbe == <<"a","@","P","M",".","M","E">>

\* "a@d.co"
Blocked == <<"a","@","d",".","c","o">>

\* "info@d.co"
RoleBlocked == <<"i","n","f","o","@","d",".","c","o">>

\* "a@t.co"
Trusted == <<"a","@","t",".","c","o">>

Emails ==
  { << >>, NotAnEmail, ShortTld, TwoAts, Plain, RoleAddress, UpperRole,
    NoProbeAddress, UpperNoProbe, Blocked, RoleBlocked, Trusted }

Mx(exchange, priority) == [ exchange |-> exchange, priority |-> priority ]

MxAnswers ==
  { Rejected("ENOTFOUND"), Resolved(<< >>), Resolved(<< Mx("mx1", 10) >>) }

Mx2Answers ==
  MxAnswers \cup { Resolved(<< Mx("mx1", 10), Mx("mx2", 10) >>),
                   Resolved(<< Mx("mx1", 20), Mx("mx2", 10), Mx("mx3", 10) >>) }

SpfAnswers ==
  { Rejected("ENODATA"), Resolved(<< "other" >>), Resolved(<< "other", "v=spf1" >>) }

DmarcAnswers ==
  { Rejected("ENOTFOUND"), Resolved(<< "other" >>), Resolved(<< "v=dmarc1" >>) }

Date(t) == [ kind |-> "date", t |-> t ]

Object(el) == [ isArray |-> FALSE, obj |-> el ]

Array(els) == [ isArray |-> TRUE, els |-> els ]

NoDate == [ domainName |-> "x" ]

WithDate(creationDate) == [ domainName |-> "x", creationDate |-> creationDate ]

WhoisObjects(dates) ==
  { Rejected("timeout"),
    Resolved(Object(NoDate)),
    Resolved(Object(WithDate([ kind |-> "empty" ]))),
    Resolved(Object(WithDate([ kind |-> "malformed" ]))) }
  \cup { Resolved(Object(WithDate(Date(t)))) : t \in dates }

WhoisArrays(dates) ==
  { Resolved(Array(<< NoDate, WithDate(Date(t)) >>)) : t \in dates }

WhoisShapes(dates) == WhoisObjects(dates) \cup WhoisArrays(dates)

\* creation dates seen by a pipeline, the clock being 0: 12 years old,
\* a year and a half old, and half a year in the future
WhoisAnswers == WhoisObjects({ -24, -3, 1 }) \cup WhoisArrays({ -3 })

Scripts ==
  [ mx : MxAnswers, mx2 : Mx2Answers, spf : SpfAnswers, dmarc : DmarcAnswers,
    whois : WhoisAnswers ]

\* the requests of /check-bulk: fewer addresses and answers, every interleaving
BulkEmails == { NotAnEmail, Plain, UpperNoProbe }

BulkScripts ==
  { [ mx |-> Resolved(<< Mx("mx1", 10) >>), mx2 |-> Resolved(<< Mx("mx1", 10) >>),
      spf |-> Resolved(<< "other", "v=spf1" >>), dmarc |-> Rejected("ENOTFOUND"),
      whois |-> Resolved(Object(WithDate(Date(-3)))) ],
    [ mx |-> Rejected("ENOTFOUND"), mx2 |-> Rejected("ENOTFOUND"),
      spf |-> Rejected("ENODATA"), dmarc |-> Resolved(<< "v=dmarc1" >>),
      whois |-> Rejected("timeout") ] }

Idle(n) ==
  /\ pc = [ i \in 1..n |-> "idle" ]
  /\ result = [ i \in 1..n |-> [ email |-> emails[i] ] ]
  /\ calls = [ i \in 1..n |-> NoCalls ]
  /\ probe = [ i \in 1..n |-> NoProbe ]
  /\ completed = << >>
  /\ response = [ sent |-> FALSE ]

NoScore ==
  /\ scoreArg = [ syntaxValid |-> FALSE ]
  /\ scoreOut = << >>

NoAge ==
  /\ ageArg = [ answer |-> Rejected("timeout"), now |-> 0 ]
  /\ ageOut = << >>

InitCheck ==
  /\ kind = "check"
  /\ emails \in [ 1..1 -> Emails ]
  /\ skipSMTP \in BOOLEAN
  /\ net \in [ 1..1 -> Scripts ]
  /\ clock = 0
  /\ Idle(1)

InitBulk ==
  /\ kind = "bulk"
  /\ \E n \in 0..MaxBatch :
       /\ emails \in [ 1..n -> BulkEmails ]
       /\ net \in [ 1..n -> BulkScripts ]
       /\ Idle(n)
  /\ skipSMTP \in BOOLEAN
  /\ clock = 0

Init ==
  /\ InitCheck \/ InitBulk
  /\ NoScore
  /\ NoAge

Next ==
  \/ CheckRequest
  \/ CheckReply
  \/ BulkRequest
  \/ BulkReply
  \/ \E i \in Pipelines : MXReturn(i)
  \/ \E i \in Pipelines : SmtpResolved(i)
  \/ \E i \in Pipelines : SmtpConnect(i)
  \/ \E i \in Pipelines : SmtpError(i)
  \/ \E i \in Pipelines : SPFReturn(i)
  \/ \E i \in Pipelines : DMARCReturn(i)
  \/ \E i \in Pipelines : WhoisReturn(i)

Spec == Init /\ [][Next]_vars

(***************************************************************************)
(* calculateScore alone, on every EmailCheckResult                         *)
(***************************************************************************)
\* domainAgeYears runs over -MaxAge..MaxAge, a very large age, and NaN
MaxAge == 11

Ages == { Num(n) : n \in (-MaxAge)..MaxAge } \cup { Num(1000), NaN }

\* the seven optional booleans: all assigned, or none of them
FlagNames ==
  { "isRole", "inBlocklist", "inTrustedDomains", "isDisposable", "noProbeList",
    "hasSPF", "hasDMARC" }

FlagParts == [ FlagNames -> BOOLEAN ] \cup { << >> }

MxParts == { << >>, [ mx |-> [ ok |-> TRUE ] ], [ mx |-> [ ok |-> FALSE ] ] }

SmtpParts ==
  { << >>,
    [ smtp |-> [ ok |-> TRUE ] ],
    [ smtp |-> [ ok |-> FALSE ] ],
    [ smtp |-> [ ok |-> FALSE, error |-> "SMTP check skipped by request" ] ],
    [ smtp |-> [ ok |-> FALSE, error |-> "Provider blocks SMTP probes" ] ],
    [ smtp |-> [ ok |-> FALSE, error |-> "DNS lookup failed: ENOTFOUND" ] ] }

AgeParts == { << >> } \cup { [ domainAgeYears |-> a ] : a \in Ages }

CheckResults ==
  { [ email |-> Plain, syntaxValid |-> v, requestsLeft |-> remaining ]
      @@ f @@ m @@ p @@ a :
      v \in BOOLEAN, f \in FlagParts, m \in MxParts, p \in SmtpParts, a \in AgeParts }

NoRequest ==
  /\ kind = "none"
  /\ emails = << >>
  /\ skipSMTP = FALSE
  /\ net = << >>
  /\ clock = 0
  /\ Idle(0)

InitScore ==
  /\ NoRequest
  /\ NoAge
  /\ scoreArg \in CheckResults
  /\ scoreOut = << >>

ScoreCall ==
  /\ kind = "none"
  /\ scoreOut = << >>
  /\ scoreOut' = << calculateScore(scoreArg) >>
  /\ UNCHANGED << pipelineVars, scoreArg, ageVars >>

NextScore == ScoreCall

SpecScore == InitScore /\ [][NextScore]_vars

(***************************************************************************)
(* getDomainAge alone, on every whois answer and clock                     *)
(***************************************************************************)
\* creation dates and clocks run over -MaxTime..MaxTime half years
MaxTime == 5

InitAge ==
  /\ NoRequest
  /\ NoScore
  /\ ageArg \in [ answer : WhoisShapes((-MaxTime)..MaxTime), now : 0..MaxTime ]
  /\ ageOut = << >>

AgeCall ==
  /\ kind = "none"
  /\ ageOut = << >>
  /\ ageOut' = << getDomainAge(ageArg.answer, ageArg.now) >>
  /\ UNCHANGED << pipelineVars, scoreVars, ageArg >>

NextAge == AgeCall

SpecAge == InitAge /\ [][NextAge]_vars


(***************************************************************************)
(* Properties                                                              *)
(***************************************************************************)
PastMX(i) == pc[i] \in { "smtpResolve", "smtpConnect", "spf", "dmarc", "whois", "done" }

\* the MX lookup of pipeline i is rejected or returns no record
MxFails(i) == ~net[i].mx.ok \/ Len(net[i].mx.value) = 0

InNoProbeList(i) == DomainOf(emails[i]) \in NO_PROBE_PROVIDERS

SkippedByRequest == [ ok |-> FALSE, error |-> "SMTP check skipped by request" ]

ProviderBlocks == [ ok |-> FALSE, error |-> "Provider blocks SMTP probes" ]

\* C1: isSMTP is invoked (and a connection opened) only if the MX check
\* succeeded, the domain is not in the no-probe list and skipSMTP is false;
\* in every other combination it is never invoked.
C1_ProbeOnlyWhenAllowed ==
  \A i \in Pipelines :
    (calls[i].isSMTP > 0 \/ probe[i].open) =>
      /\ calls[i].isSMTP = 1
      /\ ~skipSMTP
      /\ OkOf(result[i], "mx")
      /\ ~MxFails(i)
      /\ ~InNoProbeList(i)
      /\ Has(result[i], "noProbeList") /\ ~result[i].noProbeList

\* C1 witness: a pipeline that ran the probe and returned
C1_Witness ==
  \E i \in Pipelines : pc[i] = "done" /\ calls[i].isSMTP = 1 /\ probe[i].open

\* C2: for an address that fails the syntax check, checkEmail returns at once
\* without any MX, SMTP, SPF, DMARC or WHOIS call, and its score is 0.
C2_InvalidSyntaxNoCalls ==
  \A i \in Pipelines :
    ~syntaxCheck(emails[i]) =>
      /\ pc[i] \in { "idle", "done" }
      /\ calls[i] = NoCalls
      /\ ~probe[i].open
      /\ pc[i] = "done" =>
           /\ ~result[i].syntaxValid
           /\ calculateScore(result[i]) = 0

\* C2 witness: an address with an "@" and a one-letter top-level label returned
C2_Witness ==
  \E i \in Pipelines : emails[i] = ShortTld /\ pc[i] = "done" /\ response.sent

\* C3 as stated: with syntaxValid false, no field other than syntaxValid is set.
C3_OnlySyntaxValid ==
  \A i \in Pipelines :
    (pc[i] = "done" /\ ~result[i].syntaxValid) =>
      DOMAIN result[i] = { "syntaxValid" }

\* C3 amended: with syntaxValid false, the result holds the inputs email and
\* requestsLeft and syntaxValid, and no other field.
C3_OnlyInputsAndSyntaxValid ==
  \A i \in Pipelines :
    (pc[i] = "done" /\ ~syntaxCheck(emails[i])) =>
      /\ DOMAIN result[i] = { "email", "syntaxValid", "requestsLeft" }
      /\ result[i].email = emails[i]
      /\ result[i].syntaxValid = FALSE
      /\ result[i].requestsLeft = remaining

\* C3 witness: an address with two "@" returned
C3_Witness ==
  \E i \in Pipelines : emails[i] = TwoAts /\ pc[i] = "done" /\ ~result[i].syntaxValid

\* C4 as stated: when the MX lookup fails or is empty, mx.ok is false, smtp is
\* set to a non-ok status with a reason, and the probe is never attempted.
C4_MxFailureSkipsSmtpWithReason ==
  \A i \in Pipelines :
    (pc[i] = "done" /\ result[i].syntaxValid /\ MxFails(i)) =>
      /\ Has(result[i], "mx") /\ ~result[i].mx.ok
      /\ Has(result[i], "smtp")
      /\ ~result[i].smtp.ok
      /\ Has(result[i].smtp, "error")
      /\ calls[i].isSMTP = 0

\* C4 amended: when the MX lookup fails or is empty, mx.ok is false and the
\* probe is never attempted; smtp is the skipped-by-request status if skipSMTP,
\* else the provider-blocks status if the domain is in the no-probe list, else
\* it is absent.
C4_MxFailureNeverProbes ==
  \A i \in Pipelines :
    (PastMX(i) /\ result[i].syntaxValid /\ MxFails(i)) =>
      /\ Has(result[i], "mx") /\ ~result[i].mx.ok
      /\ calls[i].isSMTP = 0
      /\ ~probe[i].open
      /\ skipSMTP => Has(result[i], "smtp") /\ result[i].smtp = SkippedByRequest
      /\ (~skipSMTP /\ InNoProbeList(i)) =>
           Has(result[i], "smtp") /\ result[i].smtp = ProviderBlocks
      /\ (~skipSMTP /\ ~InNoProbeList(i)) => ~Has(result[i], "smtp")

\* C4 witness: an empty MX set, no skip, no no-probe domain: smtp stays absent
C4_Witness ==
  \E i \in Pipelines :
    /\ pc[i] = "done" /\ result[i].syntaxValid
    /\ net[i].mx.ok /\ Len(net[i].mx.value) = 0
    /\ ~skipSMTP /\ ~InNoProbeList(i)
    /\ ~Has(result[i], "smtp")

\* C5 as stated: for a domain in the no-probe list, noProbeList is true, smtp
\* is the provider-blocks status and the probe is never invoked, whatever
\* skipSMTP and the MX outcome.
C5_NoProbeAlwaysProviderBlocks ==
  \A i \in Pipelines :
    (PastMX(i) /\ result[i].syntaxValid /\ InNoProbeList(i)) =>
      /\ Has(result[i], "noProbeList") /\ result[i].noProbeList
      /\ Has(result[i], "smtp") /\ result[i].smtp = ProviderBlocks
      /\ calls[i].isSMTP = 0

\* C5 amended: for a domain in the no-probe list, noProbeList is true and the
\* probe is never invoked, whatever skipSMTP and the MX outcome; smtp is the
\* provider-blocks status when skipSMTP is false and the skipped-by-request
\* status when skipSMTP is true.
C5_NoProbeNeverProbes ==
  \A i \in Pipelines :
    (PastMX(i) /\ result[i].syntaxValid /\ InNoProbeList(i)) =>
      /\ Has(result[i], "noProbeList") /\ result[i].noProbeList
      /\ Has(result[i], "smtp")
      /\ result[i].smtp = IF skipSMTP THEN SkippedByRequest ELSE ProviderBlocks
      /\ calls[i].isSMTP = 0
      /\ ~probe[i].open

\* C5 witness: an upper-case no-probe domain, MX success, skipSMTP false
C5_Witness ==
  \E i \in Pipelines :
    /\ pc[i] = "done" /\ emails[i] = UpperNoProbe
    /\ ~skipSMTP /\ ~MxFails(i)
    /\ result[i].smtp = ProviderBlocks


\* C6: /check-bulk runs one pipeline per address concurrently, and the i-th
\* entry of its reply is the one for the i-th input address, whatever the
\* order in which the pipelines completed.
C6_BulkResultsInInputOrder ==
  (kind = "bulk" /\ response.sent /\ response.code = 200) =>
    /\ Len(response.body) = Len(emails)
    /\ \A i \in Pipelines :
         LET entry == response.body[i]
         IN  /\ entry = BulkEntry(result[i])
             /\ result[i].email = emails[i]
             /\ Has(entry.info, "result") => entry.info.result.email = emails[i]
             /\ Has(entry.info, "text") =>
                  (entry.info.text = "Invalid syntax") = ~syntaxCheck(emails[i])

\* C6 witness: two valid addresses whose pipelines ran interleaved and
\* completed in the reverse of the input order, with different entries
C6_Witness ==
  /\ kind = "bulk" /\ response.sent /\ response.code = 200
  /\ Len(emails) = 2
  /\ syntaxCheck(emails[1]) /\ syntaxCheck(emails[2])
  /\ completed = << 2, 1 >>
  /\ response.body[1] # response.body[2]

\* C7: for a valid address, whatever the collaborators answer, checkEmail never
\* throws: it can always go on, and it returns a result that records an MX
\* failure as mx.ok false, a TXT failure as hasSPF / hasDMARC false, a WHOIS
\* failure as domainAgeYears 0, a failed re-resolution of the probe as smtp
\* not ok with its message, and a connection error as smtp.ok false.
C7_FailuresAbsorbed ==
  /\ response.sent => response.code # 500
  /\ \A i \in Pipelines :
       /\ pc[i] # "thrown"
       /\ pc[i] = "smtpConnect" =>
            probe[i].open /\ ~probe[i].connected /\ ~probe[i].errored
       /\ (pc[i] = "done" /\ syntaxCheck(emails[i])) =>
            /\ Has(result[i], "mx") /\ (MxFails(i) => ~result[i].mx.ok)
            /\ Has(result[i], "hasSPF") /\ (~net[i].spf.ok => ~result[i].hasSPF)
            /\ Has(result[i], "hasDMARC") /\ (~net[i].dmarc.ok => ~result[i].hasDMARC)
            /\ Has(result[i], "domainAgeYears")
            /\ ~net[i].whois.ok => result[i].domainAgeYears = Num(0)
            /\ (calls[i].isSMTP = 1 /\ ~probe[i].open) =>
                 /\ Has(result[i], "smtp") /\ ~result[i].smtp.ok
                 /\ Has(result[i].smtp, "error")
            /\ (probe[i].open /\ probe[i].resolved = << FALSE >>) =>
                 Has(result[i], "smtp") /\ ~result[i].smtp.ok

\* C7 witness: a valid address returned after a connection error of the
\* probe, rejected TXT lookups and a rejected WHOIS lookup
C7_Witness ==
  \E i \in Pipelines :
    /\ pc[i] = "done" /\ syntaxCheck(emails[i])
    /\ probe[i].open /\ probe[i].resolved = << FALSE >>
    /\ ~net[i].spf.ok /\ ~net[i].dmarc.ok /\ ~net[i].whois.ok

\* the whois answer carries no creation date that parses
NoUsableDate(answer) ==
  \/ ~answer.ok
  \/ CreationDateOf(answer.value) = << >>
  \/ CreationDateOf(answer.value)[1].kind # "date"

\* C8: getDomainAge returns a non-negative integer for every WHOIS outcome:
\* 0 on a lookup error, a missing creation date and a malformed creation date,
\* and never a negative value, also for a creation date later than the clock.
C8_AgeNonNegativeInteger ==
  ageOut # << >> =>
    /\ ~ageOut[1].nan
    /\ ageOut[1].n >= 0
    /\ NoUsableDate(ageArg.answer) => ageOut[1].n = 0

\* the four signals of C9 and what raising one of them assigns
Raised(r, signal) ==
  IF signal \in { "mx", "smtp" }
    THEN Put(r, signal, [ ok |-> TRUE ])
    ELSE Put(r, signal, TRUE)

IsRaised(r, signal) ==
  IF signal \in { "mx", "smtp" } THEN OkOf(r, signal) ELSE Flag(r, signal)

\* C9: calculateScore is non-decreasing in each of hasSPF, hasDMARC, mx.ok and
\* smtp.ok: turning one of them from false or absent to true, all else fixed,
\* never lowers the score.
C9_ScoreMonotone ==
  scoreOut # << >> =>
    \A signal \in { "hasSPF", "hasDMARC", "mx", "smtp" } :
      ~IsRaised(scoreArg, signal) =>
        calculateScore(Raised(scoreArg, signal)) >= scoreOut[1]

\* C9 witness: a result with the four signals off whose score rises with MX
C9_Witness ==
  /\ scoreOut # << >>
  /\ scoreArg.syntaxValid
  /\ \A signal \in { "hasSPF", "hasDMARC", "mx", "smtp" } : ~IsRaised(scoreArg, signal)
  /\ calculateScore(Raised(scoreArg, "mx")) > scoreOut[1]

\* C10: for every EmailCheckResult, with every combination of the signals and
\* every domainAgeYears (negative, very large, NaN), calculateScore returns
\* an integer in 0..100.
C10_ScoreInRange == scoreOut # << >> => scoreOut[1] \in 0..100

\* C10 witness: a blocklisted, disposable role address with a negative age,
\* whose sum is below 0 and is clamped
C10_Witness ==
  /\ scoreOut = << 0 >>
  /\ scoreArg.syntaxValid
  /\ Flag(scoreArg, "inBlocklist") /\ Flag(scoreArg, "isDisposable")
  /\ Flag(scoreArg, "isRole")
  /\ Has(scoreArg, "domainAgeYears") /\ ~scoreArg.domainAgeYears.nan
  /\ scoreArg.domainAgeYears.n < 0


\* smtp of a probe that was attempted and failed: a connection error (no
\* error text) or a failed re-resolution (the resolver's text)
AttemptedFailed(r) ==
  /\ Has(r, "smtp")
  /\ ~r.smtp.ok
  /\ Has(r.smtp, "error") => r.smtp \notin { SkippedByRequest, ProviderBlocks }

\* C11 as stated: all else fixed, a result whose probe was attempted and failed
\* scores lower than the same result with smtp skipped, wherever the clamp
\* does not hide the difference.
C11_FailedProbeScoresLower ==
  (scoreOut # << >> /\ scoreArg.syntaxValid /\ AttemptedFailed(scoreArg)) =>
    \A skipped \in { SkippedByRequest, ProviderBlocks } :
      LET other == calculateScore(Put(scoreArg, "smtp", skipped))
      IN  other > 0 => scoreOut[1] < other

\* C11 amended: all else fixed, a result whose probe was attempted and failed
\* scores the same as that result with smtp skipped: neither carries a penalty.
C11_FailedProbeScoresAsSkipped ==
  (scoreOut # << >> /\ scoreArg.syntaxValid /\ AttemptedFailed(scoreArg)) =>
    \A skipped \in { SkippedByRequest, ProviderBlocks } :
      scoreOut[1] = calculateScore(Put(scoreArg, "smtp", skipped))

\* C11 witness: a failed probe scored strictly between the clamps
C11_Witness ==
  /\ scoreOut # << >>
  /\ scoreArg.syntaxValid
  /\ AttemptedFailed(scoreArg)
  /\ scoreOut[1] \in 1..99


\* the result with SPF, DMARC, trusted-domain membership and age replaced
Varied(r, spf, dmarc, trusted, age) ==
  Put(Put(Put(Put(r, "hasSPF", spf), "hasDMARC", dmarc),
          "inTrustedDomains", trusted), "domainAgeYears", age)

\* the otherwise-identical result of a non-role, non-blocklisted address
NonRoleNonBlocklisted(r) ==
  Put(Put(Put(r, "isRole", FALSE), "inBlocklist", FALSE), "isDisposable", FALSE)

\* C12: for a role address of a blocklisted domain with MX and SMTP success,
\* isRole, inBlocklist and isDisposable are true, and for every SPF, DMARC,
\* trusted-domain membership and age the score is below the score of the
\* non-role, non-blocklisted result by the whole role penalty (5) and the
\* whole blocklist penalty (20, and 25 more for isDisposable): the clamp
\* absorbs nothing.
C12_RoleAndBlocklistPenalties ==
  \A i \in Pipelines :
    ( /\ pc[i] = "done" /\ result[i].syntaxValid
      /\ split(emails[i])[1] \in roles
      /\ DomainOf(emails[i]) \in blocklist
      /\ OkOf(result[i], "mx") /\ OkOf(result[i], "smtp") ) =>
      /\ result[i].isRole /\ result[i].inBlocklist /\ result[i].isDisposable
      /\ \A spf \in BOOLEAN, dmarc \in BOOLEAN, trusted \in BOOLEAN, age \in Ages :
           LET r == Varied(result[i], spf, dmarc, trusted, age)
               score == calculateScore(r)
           IN  /\ score > 0
               /\ calculateScore(NonRoleNonBlocklisted(r)) < 100
               /\ calculateScore(NonRoleNonBlocklisted(r)) - score = 5 + 20 + 25
               /\ calculateScore(Put(r, "isRole", FALSE)) - score = 5
               /\ calculateScore(Put(r, "inBlocklist", FALSE)) - score = 20

\* C12 witness: "info@d.co" returned after MX success and a probe that connected
C12_Witness ==
  \E i \in Pipelines :
    /\ pc[i] = "done" /\ emails[i] = RoleBlocked
    /\ OkOf(result[i], "mx") /\ OkOf(result[i], "smtp")
    /\ result[i].isRole /\ result[i].inBlocklist


\* the probe of pipeline i was awaited and an "error" event settled it
ProbeFailed(i) ==
  /\ probe[i].open
  /\ probe[i].resolved = << FALSE >>
  /\ pc[i] \in { "spf", "dmarc", "whois", "done" }

\* C13 as stated: after a connection-level error of the probe, the result has
\* smtp.ok = false and the underlying error as a text in smtp's reason field.
C13_ConnectionErrorHasReason ==
  \A i \in Pipelines :
    ProbeFailed(i) =>
      /\ Has(result[i], "smtp") /\ ~result[i].smtp.ok
      /\ Has(result[i].smtp, "error")
      /\ result[i].smtp.error = probe[i].logged[1]

\* C13 amended: after a connection-level error of the probe, the result has
\* smtp = { ok: false } with no reason field; the underlying error is only
\* written to the log.
C13_ConnectionErrorHasNoReason ==
  \A i \in Pipelines :
    ProbeFailed(i) =>
      /\ Has(result[i], "smtp")
      /\ result[i].smtp = [ ok |-> FALSE ]
      /\ Len(probe[i].logged) = 1 /\ probe[i].logged[1] \in SmtpErrors

\* C13 witness: a pipeline returned after its probe timed out
C13_Witness ==
  \E i \in Pipelines :
    /\ pc[i] = "done" /\ ProbeFailed(i)
    /\ probe[i].logged = << "ETIMEDOUT" >>
    /\ ~probe[i].connected


\* the address of pipeline i is invalid, or valid with a failed MX lookup
Negative(i) == ~syntaxCheck(emails[i]) \/ MxFails(i)

\* C14: the handlers report an invalid address and an address without MX
\* records as a negative result and never as a score: /check sends the failure
\* with code 422 and no body, /check-bulk gives the address percentage 0 and a
\* text in place of the result; every other address gets a success reply with
\* its score, whatever the SMTP, SPF, DMARC and WHOIS outcomes.
C14_NegativeResultsCarryNoScore ==
  /\ (kind = "check" /\ response.sent /\ emails[1] # << >>) =>
       IF Negative(1)
         THEN /\ response.code = 422
              /\ response.status # 200
              /\ ~Has(response, "body")
              /\ response.message =
                   IF ~syntaxCheck(emails[1])
                     THEN "Invalid email syntax" ELSE "No MX records found"
         ELSE /\ response.code = 200 /\ response.status = 200
              /\ Has(response, "body")
              /\ response.body.percentage = calculateScore(result[1])
              /\ response.body.info = result[1]
  /\ (kind = "bulk" /\ response.sent /\ Len(emails) > 0) =>
       /\ response.code = 200 /\ Has(response, "body")
       /\ \A i \in Pipelines :
            LET entry == response.body[i]
            IN  IF Negative(i)
                  THEN /\ entry.percentage = 0
                       /\ Has(entry.info, "text") /\ ~Has(entry.info, "result")
                       /\ entry.info.text =
                            IF ~syntaxCheck(emails[i])
                              THEN "Invalid syntax" ELSE "No MX records"
                  ELSE /\ Has(entry.info, "result")
                       /\ entry.info.result = result[i]
                       /\ entry.percentage = calculateScore(result[i])

\* C14 witness: a bulk reply with an address without MX records next to an
\* address that is scored although its DMARC lookup was rejected
C14_Witness ==
  /\ kind = "bulk" /\ response.sent /\ Len(emails) = 2
  /\ \E i \in Pipelines, j \in Pipelines :
       /\ syntaxCheck(emails[i]) /\ MxFails(i)
       /\ response.body[i].percentage = 0
       /\ ~Negative(j) /\ ~net[j].dmarc.ok
       /\ response.body[j].percentage > 0


\* C15: a probe that opened a connection has closed it when it reports its
\* outcome, after a greeting (quit, then true) and after an error or a
\* timeout alike: no probe reports with its session still open.
C15_SessionClosedBeforeOutcome ==
  \A i \in Pipelines :
    (probe[i].open /\ probe[i].resolved # << >>) => probe[i].quit

\* the re-resolution of the probe of pipeline i is rejected or empty
Mx2Fails(i) == ~net[i].mx2.ok \/ Len(net[i].mx2.value) = 0

\* the first record, in the resolver's order, among those of lowest priority
Preferred(records) ==
  records[CHOOSE k \in DOMAIN records :
            /\ \A j \in DOMAIN records : records[k].priority <= records[j].priority
            /\ \A j \in 1..(k - 1) : records[j].priority > records[k].priority]

\* C16: the probe connects to the host of the second MX lookup with the lowest
\* priority value, the first such in the resolver's order; if that lookup is
\* rejected or empty, no connection is opened and the probe ends with the
\* resolution error.
C16_ProbeConnectsToPreferredHost ==
  \A i \in Pipelines :
    /\ probe[i].open =>
         /\ ~Mx2Fails(i)
         /\ probe[i].host = Preferred(net[i].mx2.value).exchange
    /\ (calls[i].isSMTP = 1 /\ pc[i] # "smtpResolve" /\ Mx2Fails(i)) =>
         /\ ~probe[i].open
         /\ Has(result[i], "smtp")
         /\ result[i].smtp =
              [ ok |-> FALSE,
                error |-> IF net[i].mx2.ok
                            THEN "No MX records found for"
                            ELSE "DNS lookup failed: " \o net[i].mx2.message ]

\* C16 witness: priorities 20, 10, 10: the probe connects to the second host
C16_Witness ==
  \E i \in Pipelines :
    /\ probe[i].open
    /\ Len(net[i].mx2.value) = 3
    /\ probe[i].host = "mx2"


\* the fields every completed pipeline of a valid address has assigned
PopulatedFields ==
  { "isRole", "inBlocklist", "inTrustedDomains", "isDisposable", "mx",
    "noProbeList", "hasSPF", "hasDMARC", "domainAgeYears" }

\* C17: only the syntax check ends the pipeline early: for a valid address no
\* check runs twice, and when checkEmail returns, the MX, SPF, DMARC and
\* domain-age checks have each run exactly once and isRole, inBlocklist,
\* inTrustedDomains, isDisposable, mx, noProbeList, hasSPF, hasDMARC and
\* domainAgeYears are all assigned, whether or not MX resolution failed and
\* whether the probe was skipped, failed or succeeded.
C17_OnlySyntaxShortCircuits ==
  \A i \in Pipelines :
    (pc[i] # "idle" /\ syntaxCheck(emails[i])) =>
      /\ \A f \in DOMAIN calls[i] : calls[i][f] <= 1
      /\ pc[i] \in { "spf", "dmarc", "whois", "done" } => calls[i].hasSPF = 1
      /\ pc[i] \in { "dmarc", "whois", "done" } => calls[i].hasDMARC = 1
      /\ pc[i] \in { "whois", "done" } => calls[i].getDomainAge = 1
      /\ pc[i] = "done" =>
           /\ calls[i].checkMX = 1
           /\ PopulatedFields \subseteq DOMAIN result[i]
           /\ result[i].isDisposable = result[i].inBlocklist

\* C17 witness: a pipeline returned after a failed MX lookup and a skipped
\* probe, with SPF, DMARC and the domain age each run once
C17_Witness ==
  \E i \in Pipelines :
    /\ pc[i] = "done" /\ syntaxCheck(emails[i])
    /\ MxFails(i) /\ skipSMTP /\ calls[i].isSMTP = 0
    /\ calls[i].hasSPF = 1 /\ calls[i].hasDMARC = 1 /\ calls[i].getDomainAge = 1
    /\ PopulatedFields \subseteq DOMAIN result[i]

\* C18: the first of the two events of a connection fixes the outcome of the
\* probe: the connect callback first gives true, the error event first gives
\* false, and the later event changes neither the outcome nor result.smtp,
\* nor resumes checkEmail a second time.
C18_FirstEventFixesOutcome ==
  [][ \A i \in Pipelines :
        probe[i].open =>
          /\ probe[i].resolved # << >> =>
               /\ probe'[i].resolved = probe[i].resolved
               /\ result'[i].smtp = result[i].smtp
               /\ result[i].smtp = [ ok |-> probe[i].resolved[1] ]
               /\ calls'[i].hasSPF = 1
          /\ (probe[i].resolved = << >> /\ probe'[i].connected) =>
               /\ probe'[i].resolved = << TRUE >>
               /\ result'[i].smtp = [ ok |-> TRUE ]
          /\ (probe[i].resolved = << >> /\ probe'[i].errored) =>
               /\ probe'[i].resolved = << FALSE >>
               /\ result'[i].smtp = [ ok |-> FALSE ] ]_vars

\* C18 witness: the connect callback fired, then the error event, and the
\* pipeline returned with smtp.ok = true
C18_Witness ==
  \E i \in Pipelines :
    /\ pc[i] = "done"
    /\ probe[i].open /\ probe[i].connected /\ probe[i].errored
    /\ probe[i].resolved = << TRUE >>
    /\ result[i].smtp = [ ok |-> TRUE ]

====
